---- MODULE Spec2Model ----
(***************************************************************************)
(* Model of camerascalib.cpp: the GStreamer pipeline descriptor builder    *)
(* create_capture, the SIGINT handler with its stop flag g_stop, and main  *)
(* (argument parsing, opening of the two captures, construction of the     *)
(* calibration session, the capture-feed-display loop with its key         *)
(* dispatch, and the shared cleanup label).                                *)
(*                                                                         *)
(* Strings are sequences of one-character strings, so that the text of a   *)
(* descriptor can be searched.  main is stepped statement by statement,    *)
(* because SIGINT can be delivered between any two statements.             *)
(***************************************************************************)
EXTENDS Integers, Sequences, FiniteSets, TLC

(***************************************************************************)
(* Bounds of the model.                                                    *)
(***************************************************************************)
\* the loop body is entered at most MaxIter times
MaxIter ==
    3

\* create_capture is applied to the camera indices 0..MaxCamera
MaxCamera ==
    2

(***************************************************************************)
(* std::to_string(int): the decimal digits, most significant first, with a *)
(* leading "-" for a negative value.                                       *)
(***************************************************************************)
Digits ==
    <<"0", "1", "2", "3", "4", "5", "6", "7", "8", "9">>

RECURSIVE to_string_nat(_)
to_string_nat(n) ==
    IF n < 10 THEN <<Digits[n + 1]>>
    ELSE to_string_nat(n \div 10) \o <<Digits[(n % 10) + 1]>>

to_string(n) ==
    IF n < 0 THEN <<"-">> \o to_string_nat(0 - n) ELSE to_string_nat(n)

(***************************************************************************)
(* The string literals streamed by create_capture.                         *)
(***************************************************************************)
\* "nvarguscamerasrc sensor-id="
SensorPrefix ==
    <<"n", "v", "a", "r", "g", "u", "s", "c", "a", "m", "e", "r", "a", "s",
      "r", "c", " ", "s", "e", "n", "s", "o", "r", "-", "i", "d", "=">>

\* " ! video/x-raw(memory:NVMM), width=(int)"
WidthPrefix ==
    <<" ", "!", " ", "v", "i", "d", "e", "o", "/", "x", "-", "r", "a", "w",
      "(", "m", "e", "m", "o", "r", "y", ":", "N", "V", "M", "M", ")", ",",
      " ", "w", "i", "d", "t", "h", "=", "(", "i", "n", "t", ")">>

\* ", height=(int)"
HeightPrefix ==
    <<",", " ", "h", "e", "i", "g", "h", "t", "=", "(", "i", "n", "t", ")">>

\* ", format=(string)NV12, framerate=(fraction)"
FrameratePrefix ==
    <<",", " ", "f", "o", "r", "m", "a", "t", "=", "(", "s", "t", "r", "i",
      "n", "g", ")", "N", "V", "1", "2", ",", " ", "f", "r", "a", "m", "e",
      "r", "a", "t", "e", "=", "(", "f", "r", "a", "c", "t", "i", "o", "n",
      ")">>

\* "/1 ! nvvidconv ! video/x-raw, format=(string)BGRx ! videoconvert ! video/x-raw, format=(string)BGR ! appsink "
PipelineTail ==
    <<"/", "1", " ", "!", " ", "n", "v", "v", "i", "d", "c", "o", "n", "v",
      " ", "!", " ", "v", "i", "d", "e", "o", "/", "x", "-", "r", "a", "w",
      ",", " ", "f", "o", "r", "m", "a", "t", "=", "(", "s", "t", "r", "i",
      "n", "g", ")", "B", "G", "R", "x", " ", "!", " ", "v", "i", "d", "e",
      "o", "c", "o", "n", "v", "e", "r", "t", " ", "!", " ", "v", "i", "d",
      "e", "o", "/", "x", "-", "r", "a", "w", ",", " ", "f", "o", "r", "m",
      "a", "t", "=", "(", "s", "t", "r", "i", "n", "g", ")", "B", "G", "R",
      " ", "!", " ", "a", "p", "p", "s", "i", "n", "k", " ">>

(***************************************************************************)
(* create_capture(camera, width, height, fps): the pipeline descriptor.    *)
(***************************************************************************)
\* create_capture with width and height streamed in each other's place
create_capture_swapped(camera, width, height, fps) ==
    SensorPrefix \o to_string(camera)
        \o WidthPrefix \o to_string(height)
        \o HeightPrefix \o to_string(width)
        \o FrameratePrefix \o to_string(fps)
        \o PipelineTail

\* create_capture with the sensor index left at 0
create_capture_fixed_sensor(camera, width, height, fps) ==
    SensorPrefix \o to_string(0)
        \o WidthPrefix \o to_string(width)
        \o HeightPrefix \o to_string(height)
        \o FrameratePrefix \o to_string(fps)
        \o PipelineTail

create_capture(camera, width, height, fps) ==
    SensorPrefix \o to_string(camera)
        \o WidthPrefix \o to_string(width)
        \o HeightPrefix \o to_string(height)
        \o FrameratePrefix \o to_string(fps)
        \o PipelineTail

(***************************************************************************)
(* Program constants of main.                                              *)
(***************************************************************************)
\* static std::string matches_window, warping_window
matches_window ==
    "Matches"

warping_window ==
    "Warping"

\* the values assigned to return_val on the way to the cleanup label
ExitParseError ==
    -1

ExitOpenFirst ==
    -4

ExitCalib ==
    -5

\* the second open failure given the code of the session failure
ExitOpenSecondAsCalib ==
    ExitCalib

ExitOpenSecond ==
    -4

ExitNoFrames ==
    -10

\* the key codes main compares the result of cv::waitKey with
KeyQuit ==
    113

KeyEstimate ==
    99

KeySave ==
    115

KeyReset ==
    114

\* cv::waitKey returns -1 when no key was pressed within the delay
NoKey ==
    -1

\* the results of cv::waitKey(1): no key, 'q', 'c', 's', 'r', and 'x' for
\* any other key
Keys ==
    {NoKey, KeyQuit, KeyEstimate, KeySave, KeyReset, 120}

\* the key dispatch with the comparison for 'q' made with 'Q' (81)
KeyCommandNoQuit(k) ==
    IF k = 81 THEN "quit"
    ELSE IF k = KeyEstimate THEN "Estimate"
    ELSE IF k = KeySave THEN "Save"
    ELSE IF k = KeyReset THEN "Reset"
    ELSE "none"

\* the key dispatch with 's' taking the branch of 'r'
KeyCommandSaveAsReset(k) ==
    IF k = KeyQuit THEN "quit"
    ELSE IF k = KeyEstimate THEN "Estimate"
    ELSE IF k = KeySave THEN "Reset"
    ELSE IF k = KeyReset THEN "Reset"
    ELSE "none"

\* the runtime command main takes on a polled key (if / else if chain)
KeyCommand(k) ==
    IF k = KeyQuit THEN "quit"
    ELSE IF k = KeyEstimate THEN "Estimate"
    ELSE IF k = KeySave THEN "Save"
    ELSE IF k = KeyReset THEN "Reset"
    ELSE "none"

\* the loop condition written without the negation
LoopConditionInverted(stop) ==
    stop

\* the loop condition evaluated on a value of the flag read once, before
\* any signal
LoopConditionStale(stop) ==
    TRUE

\* while (!g_stop)
LoopCondition(stop) ==
    ~stop

\* the test of the counter off by one
NoFramesProcessedOffByOne(counter) ==
    counter <= 1

\* if (ticks.getCounter() == 0)
NoFramesProcessed(counter) ==
    counter = 0

\* what a new-expression can do: yield a non-null pointer to the constructed
\* object, or leave by an exception (std::bad_alloc, or one thrown by the
\* constructor); it never yields a null pointer
NewResults ==
    {"object", "throw"}

\* the operations on the captures, the calibration session and the display
\* whose invocations are counted
Ops ==
    {"open0", "open1", "new", "namedWindow", "pull0", "pull1", "upload",
     "Feed", "DrawMatches", "Evaluate", "download", "imshow", "waitKey",
     "Estimate", "Save", "Reset", "release0", "release1",
     "destroyAllWindows"}

(***************************************************************************)
(* Inputs.                                                                 *)
(***************************************************************************)
\* the (width, height, fps) options of the command line: the defaults of
\* the parser and one other choice
ArgSizes ==
    {<<1920, 1080, 30>>, <<1280, 720, 30>>}

\* the command line as main sees it through cv::CommandLineParser
ArgVectors ==
    [help : BOOLEAN, valid : BOOLEAN, size : ArgSizes]

\* the arguments create_capture is applied to on its own
CaptureWidths ==
    {0, 1, 12, 640, 1280, 1920}

CaptureHeights ==
    {0, 1, 480, 720, 1080}

CaptureRates ==
    {0, 1, 30, 60, 120}

VARIABLES
    pc,          \* position of main's control flow
    argv,        \* the parsed command line
    width,       \* int width
    height,      \* int height
    fps,         \* unsigned int fps
    return_val,  \* int return_val
    capture0,    \* cv::VideoCapture capture0
    capture1,    \* cv::VideoCapture capture1
    calib,       \* std::shared_ptr<CamerasCalib> calib is non-null
    windows,     \* the named windows that exist
    g_stop,      \* std::atomic<bool> g_stop
    handler,     \* signal_callback_handler is installed for SIGINT
    ticks,       \* cv::TickMeter ticks
    images,      \* std::vector<cv::Mat> images(2)
    key,         \* the key last returned by cv::waitKey
    calls,       \* number of invocations of each operation of Ops
    camera,      \* argument of a stand-alone call of create_capture
    descriptor   \* result of a stand-alone call of create_capture

vars ==
    <<pc, argv, width, height, fps, return_val, capture0, capture1, calib,
      windows, g_stop, handler, ticks, images, key, calls, camera,
      descriptor>>

\* the locals of main that hold the options
optVars ==
    <<argv, width, height, fps>>

\* the captures, the session and the windows
resVars ==
    <<capture0, capture1, calib, windows>>

\* the state of the loop
loopVars ==
    <<ticks, images, key>>

\* the stop flag and the disposition of SIGINT
sigVars ==
    <<g_stop, handler>>

\* the state of a stand-alone call of create_capture
capVars ==
    <<camera, descriptor>>

\* the operations of S are invoked once each
Invoke(S) ==
    calls' = [op \in Ops |-> IF op \in S THEN calls[op] + 1 ELSE calls[op]]

(***************************************************************************)
(* The state at the entry of main: the locals are default constructed,     *)
(* g_stop is a zero-initialised global, SIGINT has its default disposition.*)
(***************************************************************************)
MainEntry ==
    /\ return_val = 0
    /\ capture0 = [opened |-> FALSE, pipeline |-> <<>>]
    /\ capture1 = [opened |-> FALSE, pipeline |-> <<>>]
    /\ calib = FALSE
    /\ windows = {}
    /\ g_stop = FALSE
    /\ handler = FALSE
    /\ ticks = [started |-> FALSE, counter |-> 0]
    /\ images = <<"empty", "empty">>
    /\ key = NoKey
    /\ calls = [op \in Ops |-> 0]

Init ==
    /\ pc = "parse"
    /\ argv \in ArgVectors
    /\ width = 0
    /\ height = 0
    /\ fps = 0
    /\ MainEntry
    /\ camera = 0
    /\ descriptor = <<>>

(***************************************************************************)
(* main, up to the loop.                                                   *)
(***************************************************************************)
\* the help branch without its goto
ParseHelpNoGoto ==
    /\ pc = "parse"
    /\ pc' = "get_args"
    /\ UNCHANGED <<optVars, return_val, resVars, sigVars, loopVars, calls,
                   capVars>>

\* cv::CommandLineParser cmd_parser(argc, argv, keys);
\* if (cmd_parser.has("help")) { help(); goto cleanup; }
ParseHelp ==
    /\ pc = "parse"
    /\ pc' = IF argv.help THEN "cleanup" ELSE "get_args"
    /\ UNCHANGED <<optVars, return_val, resVars, sigVars, loopVars, calls,
                   capVars>>

\* width = ..., height = ..., fps = ...;
\* if (!cmd_parser.check()) { ...; return_val = -1; goto cleanup; }
GetArgs ==
    /\ pc = "get_args"
    /\ width' = argv.size[1]
    /\ height' = argv.size[2]
    /\ fps' = argv.size[3]
    /\ IF ~argv.valid
          THEN return_val' = ExitParseError /\ pc' = "cleanup"
          ELSE return_val' = return_val /\ pc' = "open0"
    /\ UNCHANGED <<argv, resVars, sigVars, loopVars, calls, capVars>>

\* capture0.open(create_capture(0, width, height, fps), cv::CAP_GSTREAMER);
\* if (!capture0.isOpened()) { ...; return_val = -4; goto cleanup; }
OpenFirst ==
    /\ pc = "open0"
    /\ \E opened \in BOOLEAN :
          /\ capture0' = [opened |-> opened,
                          pipeline |-> create_capture(0, width, height, fps)]
          /\ IF ~opened
                THEN return_val' = ExitOpenFirst /\ pc' = "cleanup"
                ELSE return_val' = return_val /\ pc' = "open1"
    /\ Invoke({"open0"})
    /\ UNCHANGED <<optVars, capture1, calib, windows, sigVars, loopVars,
                   capVars>>

\* capture1.open(create_capture(1, width, height, fps), cv::CAP_GSTREAMER);
\* if (!capture1.isOpened()) { ...; return_val = -4; goto cleanup; }
OpenSecond ==
    /\ pc = "open1"
    /\ \E opened \in BOOLEAN :
          /\ capture1' = [opened |-> opened,
                          pipeline |-> create_capture(1, width, height, fps)]
          /\ IF ~opened
                THEN return_val' = ExitOpenSecond /\ pc' = "cleanup"
                ELSE return_val' = return_val /\ pc' = "new_calib"
    /\ Invoke({"open1"})
    /\ UNCHANGED <<optVars, capture0, calib, windows, sigVars, loopVars,
                   capVars>>

\* calib.reset(new videostitcher::CamerasCalib(calib_settings));
\* if (!calib) { ...; return_val = -5; goto cleanup; }
\* An exception of the new-expression is caught nowhere: std::terminate
\* ends the process before main returns.
NewCalib ==
    /\ pc = "new_calib"
    /\ \E r \in NewResults :
          IF r = "throw"
             THEN /\ pc' = "terminated"
                  /\ UNCHANGED <<calib, return_val>>
             ELSE /\ calib' = (r = "object")
                  /\ IF ~calib'
                        THEN return_val' = ExitCalib /\ pc' = "cleanup"
                        ELSE return_val' = return_val /\ pc' = "windows"
    /\ Invoke({"new"})
    /\ UNCHANGED <<optVars, capture0, capture1, windows, sigVars, loopVars,
                   capVars>>

\* cv::namedWindow, cv::resizeWindow and cv::moveWindow of both windows
CreateWindows ==
    /\ pc = "windows"
    /\ windows' = windows \cup {matches_window, warping_window}
    /\ Invoke({"namedWindow"})
    /\ pc' = "clear_stop"
    /\ UNCHANGED <<optVars, return_val, capture0, capture1, calib, sigVars,
                   loopVars, capVars>>

\* g_stop = false;
ClearStop ==
    /\ pc = "clear_stop"
    /\ g_stop' = FALSE
    /\ pc' = "signal"
    /\ UNCHANGED <<optVars, return_val, resVars, handler, loopVars, calls,
                   capVars>>

\* signal(SIGINT, signal_callback_handler);
InstallHandler ==
    /\ pc = "signal"
    /\ handler' = TRUE
    /\ pc' = "while"
    /\ UNCHANGED <<optVars, return_val, resVars, g_stop, loopVars, calls,
                   capVars>>

(***************************************************************************)
(* The loop.                                                               *)
(***************************************************************************)
\* while (!g_stop)
LoopHead ==
    /\ pc = "while"
    /\ IF LoopCondition(g_stop)
          THEN calls["pull0"] < MaxIter /\ pc' = "ticks_start"
          ELSE pc' = "after_loop"
    /\ UNCHANGED <<optVars, return_val, resVars, sigVars, loopVars, calls,
                   capVars>>

\* ticks.start();
TicksStart ==
    /\ pc = "ticks_start"
    /\ ticks' = [ticks EXCEPT !.started = TRUE]
    /\ pc' = "pull0"
    /\ UNCHANGED <<optVars, return_val, resVars, sigVars, images, key, calls,
                   capVars>>

\* capture0 >> images[0];   (an empty image when no frame was grabbed)
PullFirst ==
    /\ pc = "pull0"
    /\ \E f \in {"empty", "frame"} : images' = [images EXCEPT ![1] = f]
    /\ Invoke({"pull0"})
    /\ pc' = "pull1"
    /\ UNCHANGED <<optVars, return_val, resVars, sigVars, ticks, key,
                   capVars>>

\* the second pull with an empty image abandoning the iteration
PullSecondSkipEmpty ==
    /\ pc = "pull1"
    /\ \E f \in {"empty", "frame"} :
          /\ images' = [images EXCEPT ![2] = f]
          /\ pc' = IF f = "empty" THEN "while" ELSE "upload"
    /\ Invoke({"pull1"})
    /\ UNCHANGED <<optVars, return_val, resVars, sigVars, ticks, key,
                   capVars>>

\* capture1 >> images[1];
PullSecond ==
    /\ pc = "pull1"
    /\ \E f \in {"empty", "frame"} : images' = [images EXCEPT ![2] = f]
    /\ Invoke({"pull1"})
    /\ pc' = "upload"
    /\ UNCHANGED <<optVars, return_val, resVars, sigVars, ticks, key,
                   capVars>>

\* a statement of the loop body that invokes op and changes nothing of the
\* modelled state
Statement(at, op, next) ==
    /\ pc = at
    /\ Invoke({op})
    /\ pc' = next
    /\ UNCHANGED <<optVars, return_val, resVars, sigVars, loopVars, capVars>>

\* cuda_images[0].upload(images[0]); cuda_images[1].upload(images[1]);
Upload ==
    Statement("upload", "upload", "feed")

\* calib->Feed(cuda_images);
Feed ==
    Statement("feed", "Feed", "draw")

\* calib->DrawMatches(images, matches_image);
DrawMatches ==
    Statement("draw", "DrawMatches", "evaluate")

\* calib->Evaluate(cuda_images, psnr, mssim, stitched_image);
Evaluate ==
    Statement("evaluate", "Evaluate", "download")

\* stitched_image.download(visual_stitching);
Download ==
    Statement("download", "download", "imshow")

\* cv::imshow(matches_window, ...); cv::imshow(warping_window, ...);
Show ==
    Statement("imshow", "imshow", "wait_key")

\* int key = cv::waitKey(1);
WaitKey ==
    /\ pc = "wait_key"
    /\ key' \in Keys
    /\ Invoke({"waitKey"})
    /\ pc' = "dispatch"
    /\ UNCHANGED <<optVars, return_val, resVars, sigVars, ticks, images,
                   capVars>>

\* the dispatch leaving the loop on a set flag before it looks at the key
DispatchStopsFirst ==
    /\ pc = "dispatch"
    /\ LET cmd == IF g_stop THEN "quit" ELSE KeyCommand(key) IN
          /\ pc' = IF cmd = "quit" THEN "after_loop" ELSE "ticks_stop"
          /\ Invoke({cmd} \cap {"Estimate", "Save", "Reset"})
    /\ UNCHANGED <<optVars, return_val, resVars, sigVars, loopVars, capVars>>

\* if (key == 'q') break; else if (key == 'c') calib->Estimate(); ...
Dispatch ==
    /\ pc = "dispatch"
    /\ LET cmd == KeyCommand(key) IN
          /\ pc' = IF cmd = "quit" THEN "after_loop" ELSE "ticks_stop"
          /\ Invoke({cmd} \cap {"Estimate", "Save", "Reset"})
    /\ UNCHANGED <<optVars, return_val, resVars, sigVars, loopVars, capVars>>

\* the end of the iteration also setting the flag back to false
TicksStopClearsFlag ==
    /\ pc = "ticks_stop"
    /\ ticks' = IF ticks.started
                   THEN [started |-> FALSE, counter |-> ticks.counter + 1]
                   ELSE ticks
    /\ g_stop' = FALSE
    /\ pc' = "while"
    /\ UNCHANGED <<optVars, return_val, resVars, handler, images, key, calls,
                   capVars>>

\* ticks.stop();   (counts the iteration, cv::TickMeter::stop)
TicksStop ==
    /\ pc = "ticks_stop"
    /\ ticks' = IF ticks.started
                   THEN [started |-> FALSE, counter |-> ticks.counter + 1]
                   ELSE ticks
    /\ pc' = "while"
    /\ UNCHANGED <<optVars, return_val, resVars, sigVars, images, key, calls,
                   capVars>>

(***************************************************************************)
(* main, after the loop.                                                   *)
(***************************************************************************)
\* if (ticks.getCounter() == 0) { ...; return_val = -10; goto cleanup; }
\* fps_calculated = ...; std::cout << ...;
AfterLoop ==
    /\ pc = "after_loop"
    /\ return_val' = IF NoFramesProcessed(ticks.counter)
                        THEN ExitNoFrames ELSE return_val
    /\ pc' = "cleanup"
    /\ UNCHANGED <<optVars, resVars, sigVars, loopVars, calls, capVars>>

\* cleanup: capture0.release(); capture1.release();
\*          cv::destroyAllWindows(); return return_val;
Cleanup ==
    /\ pc = "cleanup"
    /\ capture0' = [capture0 EXCEPT !.opened = FALSE]
    /\ capture1' = [capture1 EXCEPT !.opened = FALSE]
    /\ windows' = {}
    /\ Invoke({"release0", "release1", "destroyAllWindows"})
    /\ pc' = "returned"
    /\ UNCHANGED <<optVars, return_val, calib, sigVars, loopVars, capVars>>

(***************************************************************************)
(* SIGINT.                                                                 *)
(***************************************************************************)
\* the handler also destroying the windows
signal_callback_handler_destroys ==
    /\ g_stop' = TRUE
    /\ windows' = {}
    /\ UNCHANGED <<pc, optVars, return_val, capture0, capture1, calib,
                   handler, loopVars, calls, capVars>>

\* void signal_callback_handler(int signum) { g_stop = true; }
signal_callback_handler ==
    /\ g_stop' = TRUE
    /\ UNCHANGED <<pc, optVars, return_val, resVars, handler, loopVars,
                   calls, capVars>>

\* the process is running main
Running ==
    pc \notin {"returned", "terminated", "killed", "create_capture",
               "created"}

\* SIGINT is delivered between two statements of main: the handler runs if
\* signal() has installed it, otherwise the default disposition ends the
\* process
Interrupt ==
    /\ Running
    /\ IF handler
          THEN signal_callback_handler
          ELSE /\ pc' = "killed"
               /\ UNCHANGED <<optVars, return_val, resVars, sigVars,
                              loopVars, calls, capVars>>

\* one statement of main
Main ==
    \/ ParseHelp
    \/ GetArgs
    \/ OpenFirst
    \/ OpenSecond
    \/ NewCalib
    \/ CreateWindows
    \/ ClearStop
    \/ InstallHandler
    \/ LoopHead
    \/ TicksStart
    \/ PullFirst
    \/ PullSecond
    \/ Upload
    \/ Feed
    \/ DrawMatches
    \/ Evaluate
    \/ Download
    \/ Show
    \/ WaitKey
    \/ Dispatch
    \/ TicksStop
    \/ AfterLoop
    \/ Cleanup

Next ==
    \/ Main
    \/ Interrupt

Spec ==
    Init /\ [][Next]_vars

\* every call main makes returns, so main keeps taking steps
LiveSpec ==
    Init /\ [][Next]_vars /\ WF_vars(Main)

(***************************************************************************)
(* create_capture applied on its own to bounded arguments.                 *)
(***************************************************************************)
InitCapture ==
    /\ pc = "create_capture"
    /\ argv = [help |-> FALSE, valid |-> TRUE, size |-> <<1920, 1080, 30>>]
    /\ camera \in 0..MaxCamera
    /\ width \in CaptureWidths
    /\ height \in CaptureHeights
    /\ fps \in CaptureRates
    /\ MainEntry
    /\ descriptor = <<>>

\* descriptor = create_capture(camera, width, height, fps);
CallCreateCapture ==
    /\ pc = "create_capture"
    /\ descriptor' = create_capture(camera, width, height, fps)
    /\ pc' = "created"
    /\ UNCHANGED <<optVars, return_val, resVars, sigVars, loopVars, calls,
                   camera>>

NextCapture ==
    CallCreateCapture

SpecCapture ==
    InitCapture /\ [][NextCapture]_vars

(***************************************************************************)
(* Reading a descriptor back: the places where a text occurs in it, and    *)
(* the decimal number written after a key.                                 *)
(***************************************************************************)
\* "sensor-id="
SensorKey ==
    <<"s", "e", "n", "s", "o", "r", "-", "i", "d", "=">>

\* "width=(int)"
WidthKey ==
    <<"w", "i", "d", "t", "h", "=", "(", "i", "n", "t", ")">>

\* "height=(int)"
HeightKey ==
    <<"h", "e", "i", "g", "h", "t", "=", "(", "i", "n", "t", ")">>

\* "framerate=(fraction)"
FramerateKey ==
    <<"f", "r", "a", "m", "e", "r", "a", "t", "e", "=", "(", "f", "r", "a",
      "c", "t", "i", "o", "n", ")">>

\* "/1"
FractionDenominator ==
    <<"/", "1">>

\* "sensor-id=1"
ExampleSensor ==
    <<"s", "e", "n", "s", "o", "r", "-", "i", "d", "=", "1">>

\* "width=(int)1280"
ExampleWidth ==
    <<"w", "i", "d", "t", "h", "=", "(", "i", "n", "t", ")", "1", "2", "8",
      "0">>

\* "height=(int)720"
ExampleHeight ==
    <<"h", "e", "i", "g", "h", "t", "=", "(", "i", "n", "t", ")", "7", "2",
      "0">>

\* "framerate=(fraction)30/1"
ExampleFramerate ==
    <<"f", "r", "a", "m", "e", "r", "a", "t", "e", "=", "(", "f", "r", "a",
      "c", "t", "i", "o", "n", ")", "3", "0", "/", "1">>

\* the positions of s at which pat occurs
Occurrences(s, pat) ==
    {i \in 1..(Len(s) - Len(pat) + 1) : SubSeq(s, i, i + Len(pat) - 1) = pat}

IsDigit(c) ==
    \E d \in 1..10 : Digits[d] = c

DigitValue(c) ==
    (CHOOSE d \in 1..10 : Digits[d] = c) - 1

\* the longest run of digits of s that starts at position i
RECURSIVE DigitRun(_, _)
DigitRun(s, i) ==
    IF i <= Len(s) /\ IsDigit(s[i]) THEN <<s[i]>> \o DigitRun(s, i + 1)
    ELSE <<>>

\* the number a sequence of digits denotes
RECURSIVE Decimal(_)
Decimal(ds) ==
    IF ds = <<>> THEN 0
    ELSE 10 * Decimal(SubSeq(ds, 1, Len(ds) - 1)) + DigitValue(ds[Len(ds)])

\* s contains k exactly once, followed by the decimal numeral of value
\* (without leading zeros) and then by the text follower
HasField(s, k, value, follower) ==
    /\ Cardinality(Occurrences(s, k)) = 1
    /\ LET i == CHOOSE j \in Occurrences(s, k) : TRUE
           run == DigitRun(s, i + Len(k))
           after == i + Len(k) + Len(run)
       IN  /\ Len(run) >= 1
           /\ Len(run) > 1 => run[1] # "0"
           /\ Decimal(run) = value
           /\ SubSeq(s, after, after + Len(follower) - 1) = follower

(***************************************************************************)
(* Sets of operations and positions the properties speak of.               *)
(***************************************************************************)
\* the operations of the calibration session
CollabOps ==
    {"Feed", "DrawMatches", "Evaluate", "Estimate", "Save", "Reset"}

\* the operations every iteration of the loop performs once
IterationOps ==
    {"pull0", "pull1", "upload", "Feed", "DrawMatches", "Evaluate",
     "download", "imshow", "waitKey"}

\* the positions inside the loop (state RUNNING)
LoopPcs ==
    {"while", "ticks_start", "pull0", "pull1", "upload", "feed", "draw",
     "evaluate", "download", "imshow", "wait_key", "dispatch", "ticks_stop"}

\* the loop was never entered and nothing of it was invoked
LoopUntouched ==
    /\ pc \notin LoopPcs \cup {"after_loop"}
    /\ \A op \in IterationOps \cup CollabOps : calls[op] = 0

\* release and destruction were performed exactly once each
CleanedUpOnce ==
    /\ calls["release0"] = 1
    /\ calls["release1"] = 1
    /\ calls["destroyAllWindows"] = 1
    /\ windows = {}

\* the startup site that failed, once main is on its way out
FailedFirst ==
    /\ pc \in {"cleanup", "returned"}
    /\ calls["open0"] = 1
    /\ calls["open1"] = 0

FailedSecond ==
    /\ pc \in {"cleanup", "returned"}
    /\ calls["open1"] = 1
    /\ calls["new"] = 0

FailedCalib ==
    /\ pc \in {"cleanup", "returned", "terminated"}
    /\ calls["new"] = 1
    /\ ~calib

\* startup succeeded: the loop was reached
StartupDone ==
    handler

(***************************************************************************)
(* C1: on every exit path of main (help, parse error, failure to open the  *)
(* first or the second camera, failure of the calibration session, quit    *)
(* key, interrupt, no frames) release is invoked exactly once on each      *)
(* capture and the windows are destroyed before the process ends; release  *)
(* is never invoked twice on the same capture.                             *)
(***************************************************************************)
C1_ReleaseOnceOnEveryExit ==
    /\ calls["release0"] <= 1
    /\ calls["release1"] <= 1
    /\ pc \in {"returned", "terminated"} => CleanedUpOnce

(***************************************************************************)
(* C2: the loop is entered only after capture 0, capture 1 and the session *)
(* were constructed, in that order; a failed open of camera 0 exits with   *)
(* -4 without opening camera 1, a failed open of camera 1 exits with -4, a *)
(* failed construction of the session exits with -5; in these cases no     *)
(* frame is pulled, no operation of the session is invoked and no open is  *)
(* retried.                                                                *)
(***************************************************************************)
C2_StartupGate ==
    /\ pc \in LoopPcs => capture0.opened /\ capture1.opened /\ calib
    /\ calls["open0"] <= 1 /\ calls["open1"] <= 1 /\ calls["new"] <= 1
    /\ calls["open1"] = 1 => calls["open0"] = 1
    /\ calls["new"] = 1 => calls["open1"] = 1
    /\ FailedFirst => return_val = -4 /\ LoopUntouched
    /\ FailedSecond => return_val = -4 /\ LoopUntouched
    /\ FailedCalib =>
          /\ pc \in {"cleanup", "returned"}
          /\ return_val = -5
          /\ LoopUntouched

(***************************************************************************)
(* C3: once startup has succeeded, the process exits with -10 exactly when *)
(* no frame pair was pulled and processed by the loop before it ended, and *)
(* with 0 whenever at least one frame pair was pulled and processed.       *)
(***************************************************************************)
C3_NoFramesExitCode ==
    (pc = "returned" /\ StartupDone) =>
        /\ return_val = -10 <=> calls["Evaluate"] = 0
        /\ calls["Evaluate"] >= 1 => return_val = 0

(***************************************************************************)
(* C4: when the poll of an iteration reads 'q', that iteration is the last *)
(* one: its pulls, Feed, DrawMatches, Evaluate and rendering have been     *)
(* performed, the loop exits, and no frame is pulled and no operation of   *)
(* the session is invoked afterwards, whatever the value of the stop flag. *)
(***************************************************************************)
QuitRead ==
    /\ key = KeyQuit
    /\ pc \in {"dispatch", "after_loop", "cleanup", "returned"}

C4_QuitEndsLoop ==
    /\ [](QuitRead =>
            /\ calls["pull0"] >= 1
            /\ \A op \in IterationOps : calls[op] = calls["pull0"])
    /\ [][QuitRead =>
            /\ pc' \in {pc, "after_loop", "cleanup", "returned"}
            /\ \A op \in IterationOps \cup CollabOps : calls'[op] = calls[op]
         ]_vars

C4_Witness ==
    /\ QuitRead
    /\ pc = "returned"
    /\ calls["pull0"] = 2
    /\ calls["Evaluate"] = 2
    /\ ~g_stop

(***************************************************************************)
(* C5: the stop flag is read at the head of every iteration before any     *)
(* pull: a loop-head check that finds it true leaves the loop without      *)
(* pulling a frame, so an interrupt lets at most the iteration in flight   *)
(* finish; a flag set before the first iteration gives zero pulls followed *)
(* by the release of both captures and the destruction of the windows.     *)
(***************************************************************************)
C5_StopCheckedAtLoopHead ==
    /\ [][(g_stop /\ pc = "while" /\ pc' # pc) =>
             pc' = "after_loop" /\ calls' = calls]_vars
    /\ [][(g_stop /\ pc \notin LoopPcs \ {"while"}) =>
             \A op \in IterationOps \cup CollabOps : calls'[op] = calls[op]
         ]_vars
    /\ []((pc = "returned" /\ g_stop /\ calls["waitKey"] = 0) =>
             /\ \A op \in IterationOps \cup CollabOps : calls[op] = 0
             /\ CleanedUpOnce)

C5_Witness ==
    /\ pc = "returned"
    /\ g_stop
    /\ calls["pull0"] = 0
    /\ CleanedUpOnce

(***************************************************************************)
(* C6: if an interrupt is delivered while the loop is running and every    *)
(* call in flight returns, the process eventually leaves the loop and      *)
(* returns.                                                                *)
(***************************************************************************)
C6_InterruptLeadsToReturn ==
    (g_stop /\ pc \in LoopPcs) ~> (pc = "returned")

C6_Witness ==
    /\ pc = "returned"
    /\ g_stop
    /\ calls["pull0"] >= 1
    /\ key # KeyQuit

(***************************************************************************)
(* C7: each iteration polls one key and dispatches at most one command     *)
(* from it: 'c' invokes Estimate once, 's' Save once, 'r' Reset once, 'q'  *)
(* none of them and ends the loop, no key or another key none of them and  *)
(* the loop goes on; commands are not queued across iterations.            *)
(***************************************************************************)
Dispatching ==
    pc = "dispatch" /\ pc' # pc

C7_OneCommandPerPoll ==
    /\ [][/\ calls'["Estimate"] - calls["Estimate"] =
                IF Dispatching /\ key = KeyEstimate THEN 1 ELSE 0
          /\ calls'["Save"] - calls["Save"] =
                IF Dispatching /\ key = KeySave THEN 1 ELSE 0
          /\ calls'["Reset"] - calls["Reset"] =
                IF Dispatching /\ key = KeyReset THEN 1 ELSE 0
          /\ Dispatching =>
                pc' = IF key = KeyQuit THEN "after_loop" ELSE "ticks_stop"
          /\ calls'["waitKey"] # calls["waitKey"] =>
                /\ pc = "wait_key"
                /\ calls'["waitKey"] = calls["pull0"]
         ]_vars
    /\ [](/\ calls["waitKey"] <= calls["pull0"]
          /\ calls["pull0"] <= calls["waitKey"] + 1
          /\ calls["Estimate"] + calls["Save"] + calls["Reset"]
                <= calls["waitKey"])

C7_Witness ==
    /\ pc = "returned"
    /\ calls["Estimate"] = 1
    /\ calls["Save"] = 1
    /\ calls["Reset"] = 1
    /\ calls["waitKey"] = 3

(***************************************************************************)
(* C8: with --help the process exits with 0, with a parse error it exits   *)
(* with -1; in both cases no camera is opened, no session is constructed,  *)
(* no window is created and the loop is never entered.                     *)
(***************************************************************************)
NoStartupEffects ==
    /\ calls["open0"] = 0
    /\ calls["open1"] = 0
    /\ calls["new"] = 0
    /\ calls["namedWindow"] = 0
    /\ windows = {}
    /\ ~capture0.opened
    /\ ~capture1.opened
    /\ ~calib
    /\ LoopUntouched

C8_HelpAndParseError ==
    /\ (argv.help \/ ~argv.valid) => NoStartupEffects
    /\ (pc = "returned" /\ argv.help) => return_val = 0
    /\ (pc = "returned" /\ ~argv.help /\ ~argv.valid) => return_val = -1

C8_Witness ==
    /\ pc = "returned"
    /\ ~argv.help
    /\ ~argv.valid
    /\ return_val = -1
    /\ CleanedUpOnce

(***************************************************************************)
(* C9: each startup failure site (first open, second open, construction of *)
(* the session) exits with a negative code distinct from the code of every *)
(* other failure site, so the exit code identifies the site that failed.   *)
(***************************************************************************)
Sites ==
    {"first", "second", "calib"}

\* the code main assigns at each failure site
SiteCode ==
    [s \in Sites |->
        IF s = "first" THEN ExitOpenFirst
        ELSE IF s = "second" THEN ExitOpenSecond
        ELSE ExitCalib]

SiteFailed(s) ==
    IF s = "first" THEN FailedFirst
    ELSE IF s = "second" THEN FailedSecond
    ELSE FailedCalib /\ pc # "terminated"

C9_DistinctCodePerSite ==
    \A s \in Sites :
        (pc = "returned" /\ SiteFailed(s)) =>
            /\ return_val < 0
            /\ \A t \in Sites \ {s} : return_val # SiteCode[t]

(***************************************************************************)
(* C9 as amended: a failed open of the first camera and a failed open of   *)
(* the second camera both exit with -4, and -4 is the exit code of no      *)
(* other exit of main: the code tells a capture-open failure from every    *)
(* other exit, not which of the two cameras failed.                        *)
(***************************************************************************)
C9_OpenFailureCode ==
    pc = "returned" =>
        ((FailedFirst \/ FailedSecond) <=> return_val = -4)

C9_Witness ==
    /\ pc = "returned"
    /\ FailedSecond
    /\ return_val = -4

(***************************************************************************)
(* C10: for bounded non-negative (camera, width, height, fps) the          *)
(* descriptor of create_capture contains the decimal camera index exactly  *)
(* once after "sensor-id=", the width exactly once after "width=(int)",    *)
(* the height exactly once after "height=(int)", and the fps followed by   *)
(* "/1" after "framerate=(fraction)"; camera 1 at 1280x720, 30 fps gives   *)
(* sensor-id=1, width=(int)1280, height=(int)720, framerate=(fraction)30/1.*)
(***************************************************************************)
C10_DescriptorFields ==
    pc = "created" =>
        /\ HasField(descriptor, SensorKey, camera, <<" ">>)
        /\ HasField(descriptor, WidthKey, width, <<",">>)
        /\ HasField(descriptor, HeightKey, height, <<",">>)
        /\ HasField(descriptor, FramerateKey, fps, FractionDenominator)
        /\ (camera = 1 /\ width = 1280 /\ height = 720 /\ fps = 30) =>
              /\ Occurrences(descriptor, ExampleSensor) # {}
              /\ Occurrences(descriptor, ExampleWidth) # {}
              /\ Occurrences(descriptor, ExampleHeight) # {}
              /\ Occurrences(descriptor, ExampleFramerate) # {}

C10_Witness ==
    /\ pc = "created"
    /\ camera = 1
    /\ width = 1280
    /\ height = 720
    /\ fps = 30
    /\ Occurrences(descriptor, ExampleFramerate) # {}

(***************************************************************************)
(* C11: create_capture is a pure function of its four arguments: a call    *)
(* changes no program state, and for fixed width, height and fps two       *)
(* distinct camera indices never give the same descriptor; in particular   *)
(* the descriptors main builds for camera 0 and camera 1 differ.           *)
(***************************************************************************)
C11_PureAndInjectiveInCamera ==
    /\ [][pc = "create_capture" =>
             UNCHANGED <<optVars, return_val, resVars, sigVars, loopVars,
                         calls, camera>>]_vars
    /\ [](pc = "created" =>
             /\ \A c \in 0..MaxCamera :
                   c # camera =>
                      create_capture(c, width, height, fps) # descriptor
             /\ create_capture(0, width, height, fps)
                   # create_capture(1, width, height, fps))

C11_Witness ==
    /\ pc = "created"
    /\ camera = 0
    /\ width = 1920
    /\ height = 1080
    /\ fps = 30
    /\ descriptor # create_capture(1, width, height, fps)
    /\ Occurrences(descriptor, SensorKey) # {}

(***************************************************************************)
(* C12: within every iteration the operations occur once each and in this  *)
(* order: pull from camera 0, pull from camera 1, upload of both frames,   *)
(* Feed, DrawMatches, Evaluate, download of the stitched image, display,   *)
(* key poll, command dispatch; an empty frame skips or reorders nothing.   *)
(***************************************************************************)
\* the operations of an iteration in the order of the loop body
IterationOrder ==
    <<"pull0", "pull1", "upload", "Feed", "DrawMatches", "Evaluate",
      "download", "imshow", "waitKey">>

\* the positions at which the operation of the same index is about to run
IterationPcs ==
    <<"pull0", "pull1", "upload", "feed", "draw", "evaluate", "download",
      "imshow", "wait_key">>

C12_IterationOrder ==
    /\ [](/\ \A i \in 1..(Len(IterationOrder) - 1) :
                calls[IterationOrder[i]] >= calls[IterationOrder[i + 1]]
          /\ calls["pull0"] <= calls["waitKey"] + 1)
    /\ [][/\ \A i \in 1..Len(IterationOrder) :
                calls'[IterationOrder[i]] # calls[IterationOrder[i]] =>
                   /\ pc = IterationPcs[i]
                   /\ calls'[IterationOrder[i]] = calls[IterationOrder[i]] + 1
                   /\ pc' = IF i < Len(IterationOrder)
                               THEN IterationPcs[i + 1] ELSE "dispatch"
          /\ \A op \in {"Estimate", "Save", "Reset"} :
                calls'[op] # calls[op] =>
                   pc = "dispatch" /\ calls["waitKey"] = calls["pull0"]
         ]_vars

C12_Witness ==
    /\ pc = "dispatch"
    /\ images = <<"empty", "empty">>
    /\ \A i \in 1..Len(IterationOrder) : calls[IterationOrder[i]] = 2

(***************************************************************************)
(* C13: the interrupt handler, wherever in main it runs, only sets the     *)
(* stop flag to true: the captures, the session, the frame buffers, the    *)
(* iteration counter and the exit code are unchanged and no operation is   *)
(* invoked; those objects are touched by main's control flow only.         *)
(***************************************************************************)
C13_HandlerOnlySetsFlag ==
    [][(handler /\ pc' = pc) =>
          /\ g_stop'
          /\ UNCHANGED <<optVars, return_val, resVars, handler, loopVars,
                         calls, capVars>>]_vars

C13_Witness ==
    /\ g_stop
    /\ pc = "evaluate"
    /\ windows = {matches_window, warping_window}
    /\ capture0.opened
    /\ capture1.opened
    /\ calib
    /\ ticks.started

(***************************************************************************)
(* C14: the counter of the TickMeter is incremented only at the end of an  *)
(* iteration whose key was not 'q', so at the exit of the loop it is the   *)
(* number of iterations that ran to their end; an iteration ended by 'q'   *)
(* is not counted: 'q' in the very first iteration exits with -10 although *)
(* one frame pair was pulled, fed and displayed, and an interrupt after at *)
(* least one completed iteration exits with 0.                             *)
(***************************************************************************)
LoopLeft ==
    StartupDone /\ pc \in {"after_loop", "cleanup", "returned"}

C14_CounterCountsCompletedIterations ==
    /\ [][ticks'.counter # ticks.counter =>
             /\ pc = "ticks_stop"
             /\ key # KeyQuit
             /\ ticks'.counter = ticks.counter + 1]_vars
    /\ [](LoopLeft =>
             ticks.counter =
                calls["waitKey"] - (IF key = KeyQuit THEN 1 ELSE 0))
    /\ []((pc = "returned" /\ StartupDone) =>
             /\ (key = KeyQuit /\ calls["waitKey"] = 1) =>
                   /\ return_val = -10
                   /\ calls["pull0"] = 1 /\ calls["pull1"] = 1
                   /\ calls["Feed"] = 1 /\ calls["imshow"] = 1
             /\ (key # KeyQuit /\ calls["waitKey"] >= 1) =>
                   g_stop /\ return_val = 0
             /\ ticks.counter >= 1 => return_val = 0)

C14_Witness ==
    /\ pc = "returned"
    /\ key = KeyQuit
    /\ calls["waitKey"] = 1
    /\ calls["imshow"] = 1
    /\ ticks.counter = 0
    /\ return_val = -10

(***************************************************************************)
(* C15: the stop flag is set to false and the handler is installed only    *)
(* right before the loop, after both captures, the session and the windows *)
(* exist; from the installation on the flag changes only from false to     *)
(* true and is never set back, so once it can be seen true every later     *)
(* read sees it true; an interrupt delivered before the installation does  *)
(* not set the flag.                                                       *)
(***************************************************************************)
ResourcesExist ==
    /\ capture0.opened
    /\ capture1.opened
    /\ calib
    /\ windows = {matches_window, warping_window}

C15_FlagSetOnceAfterInstall ==
    /\ [][handler' # handler =>
             /\ handler'
             /\ pc = "signal" /\ pc' = "while"
             /\ ResourcesExist
             /\ ~g_stop]_vars
    /\ [][(pc = "clear_stop" /\ pc' \notin {pc, "killed"}) =>
             ~g_stop' /\ pc' = "signal" /\ ResourcesExist]_vars
    /\ [][(handler /\ g_stop) => g_stop']_vars
    /\ [](~handler => ~g_stop)

C15_Witness ==
    /\ handler
    /\ g_stop
    /\ pc = "while"
    /\ ticks.counter = 2

(***************************************************************************)
(* C16: a command read in the iteration in which the interrupt arrived is  *)
(* still dispatched: with the flag true, a polled 'c', 's' or 'r' invokes  *)
(* Estimate, Save or Reset once before the loop-head check stops the loop; *)
(* no operation of the session is invoked after the loop has been left.    *)
(***************************************************************************)
C16_CommandDispatchedDespiteStop ==
    /\ [][(g_stop /\ Dispatching) =>
             /\ key = KeyEstimate =>
                   calls'["Estimate"] = calls["Estimate"] + 1
             /\ key = KeySave => calls'["Save"] = calls["Save"] + 1
             /\ key = KeyReset => calls'["Reset"] = calls["Reset"] + 1
             /\ key \in {KeyEstimate, KeySave, KeyReset} =>
                   pc' = "ticks_stop"]_vars
    /\ [][(g_stop /\ pc = "ticks_stop" /\ pc' # pc) => pc' = "while"]_vars
    /\ [][(g_stop /\ pc = "while" /\ pc' # pc) => pc' = "after_loop"]_vars
    /\ [][LoopLeft => \A op \in CollabOps : calls'[op] = calls[op]]_vars

C16_Witness ==
    /\ g_stop
    /\ pc = "after_loop"
    /\ key = KeySave
    /\ calls["Save"] = 1
    /\ calls["waitKey"] = 1
====
